---- MODULE Spec2Model ----
(***************************************************************************)
(* A model of the xenna streaming XML reader: the buffered StreamReader    *)
(* cursor (src/reader/stream_reader.rs), the token / backtracking layer    *)
(* (src/token.rs), the lexical rules (src/parse/token/rules.rs) and the    *)
(* EventReader state machine (src/reader.rs).                              *)
(*                                                                         *)
(* Bytes are numbers 0..255, characters are Unicode code points, strings   *)
(* are sequences of code points.  An ASCII string literal of the source is *)
(* written as the tuple of its bytes, with the text in a comment.          *)
(***************************************************************************)
EXTENDS Integers, Sequences, FiniteSets, TLC

VARIABLES
    stream,     \* the whole byte stream the byte source will deliver
    src,        \* EventReader.src : the StreamReader
    st,         \* EventReader.st  : the State
    path,       \* EventReader.path: the stack of open element names
    results,    \* history: the result of every next_event call so far
    attempts,   \* history: the default try_parse attempts of the last call
    before,     \* history: src/st/path as they were when the last call began
    chunked,    \* a second EventReader, whose source delivers the bytes differently
    rule,       \* a lexical rule closure under test, fed one character at a time
    probe       \* a function of encoding.rs under test: its arguments and its outcome

vars == <<stream, src, st, path, results, attempts, before, chunked, rule, probe>>

(***************************************************************************)
(* Bounds of the model.                                                    *)
(***************************************************************************)
MaxFrags == 3
MaxCalls == 9
MaxRuleLen == 5
MaxEvents == 6
MaxDetectLen == 4
MaxCharBytes == 2
MaxPieces == 2
MaxOps == 2

(***************************************************************************)
(* Sequence helpers.                                                       *)
(***************************************************************************)
StartsWith(buf, needle) ==
    /\ Len(needle) <= Len(buf)
    /\ SubSeq(buf, 1, Len(needle)) = needle

Drop(s, n) == SubSeq(s, n + 1, Len(s))

\* whether `needle` occurs in `s` starting at 1-based index i
OccursAt(s, needle, i) ==
    /\ i >= 1
    /\ i + Len(needle) - 1 <= Len(s)
    /\ SubSeq(s, i, i + Len(needle) - 1) = needle

Contains(s, needle) == \E i \in 1..Len(s) : OccursAt(s, needle, i)

RECURSIVE Flatten(_)
Flatten(ss) == IF ss = <<>> THEN <<>> ELSE Head(ss) \o Flatten(Tail(ss))

RECURSIVE SeqsUpTo(_, _)
SeqsUpTo(S, n) ==
    IF n = 0 THEN {<<>>}
    ELSE LET shorter == SeqsUpTo(S, n - 1)
         IN  shorter \cup {Append(s, x) : s \in {t \in shorter : Len(t) = n - 1}, x \in S}

(***************************************************************************)
(* encoding.rs                                                             *)
(***************************************************************************)
UTF_8_BOM    == <<239, 187, 191>>   \* EF BB BF
UTF_16BE_BOM == <<254, 255>>        \* FE FF
UTF_16LE_BOM == <<255, 254>>        \* FF FE

\* detect without the test for the bytes of <?xm
detect_without_ascii(bytes) ==
    IF StartsWith(bytes, UTF_16BE_BOM) THEN [enc |-> "Utf16Be", bom_len |-> Len(UTF_16BE_BOM)]
    ELSE IF StartsWith(bytes, UTF_16LE_BOM) THEN [enc |-> "Utf16Le", bom_len |-> Len(UTF_16LE_BOM)]
    ELSE IF StartsWith(bytes, UTF_8_BOM) THEN [enc |-> "Utf8", bom_len |-> Len(UTF_8_BOM)]
    ELSE IF StartsWith(bytes, <<0, 60, 0, 63>>) THEN [enc |-> "Utf16Be", bom_len |-> 0]
    ELSE IF StartsWith(bytes, <<60, 0, 63, 0>>) THEN [enc |-> "Utf16Le", bom_len |-> 0]
    ELSE [enc |-> "Utf8", bom_len |-> 0]

\* detect(bytes) -> (Encoding, bom_len)
detect(bytes) ==
    IF StartsWith(bytes, UTF_16BE_BOM) THEN [enc |-> "Utf16Be", bom_len |-> Len(UTF_16BE_BOM)]
    ELSE IF StartsWith(bytes, UTF_16LE_BOM) THEN [enc |-> "Utf16Le", bom_len |-> Len(UTF_16LE_BOM)]
    ELSE IF StartsWith(bytes, UTF_8_BOM) THEN [enc |-> "Utf8", bom_len |-> Len(UTF_8_BOM)]
    ELSE IF StartsWith(bytes, <<0, 60, 0, 63>>) THEN [enc |-> "Utf16Be", bom_len |-> 0]
    ELSE IF StartsWith(bytes, <<60, 0, 63, 0>>) THEN [enc |-> "Utf16Le", bom_len |-> 0]
    ELSE IF StartsWith(bytes, <<60, 63, 120, 109>>) THEN [enc |-> "Ascii", bom_len |-> 0]  \* <?xm
    ELSE [enc |-> "Utf8", bom_len |-> 0]

\* utf8_char_len taking every byte from 0xF0 on for the first of four
utf8_char_len_open_ended(first_byte) ==
    IF first_byte <= 127 THEN 1
    ELSE IF first_byte >= 192 /\ first_byte <= 223 THEN 2
    ELSE IF first_byte >= 224 /\ first_byte <= 239 THEN 3
    ELSE IF first_byte >= 240 THEN 4
    ELSE 0

\* utf8_char_len(first_byte): 0 stands for Err(InvalidData)
utf8_char_len(first_byte) ==
    IF first_byte <= 127 THEN 1
    ELSE IF first_byte >= 192 /\ first_byte <= 223 THEN 2
    ELSE IF first_byte >= 224 /\ first_byte <= 239 THEN 3
    ELSE IF first_byte >= 240 /\ first_byte <= 247 THEN 4
    ELSE 0

\* Encoding::bytes_per_char: the width take_while starts with
bytes_per_char(enc) == IF enc \in {"Utf16Be", "Utf16Le"} THEN 2 ELSE 1

\* Encoding::decode_char(char_buf) -> Option<char>: -1 stands for None
decode_char(enc, cb) ==
    LET IsCont(b) == b >= 128 /\ b <= 191 IN
    IF enc = "Utf16Be" THEN
        (IF Len(cb) = 2 /\ ~(cb[1] >= 216 /\ cb[1] <= 223) THEN cb[1] * 256 + cb[2] ELSE -1)
    ELSE IF enc = "Utf16Le" THEN
        (IF Len(cb) = 2 /\ ~(cb[2] >= 216 /\ cb[2] <= 223) THEN cb[2] * 256 + cb[1] ELSE -1)
    ELSE IF Len(cb) = 1 THEN (IF cb[1] <= 127 THEN cb[1] ELSE -1)
    ELSE IF enc = "Ascii" THEN -1
    ELSE IF Len(cb) = 2 /\ utf8_char_len(cb[1]) = 2 /\ IsCont(cb[2]) /\ cb[1] >= 194
        THEN (cb[1] - 192) * 64 + (cb[2] - 128)
    ELSE IF Len(cb) = 3 /\ utf8_char_len(cb[1]) = 3 /\ IsCont(cb[2]) /\ IsCont(cb[3])
        THEN (cb[1] - 224) * 4096 + (cb[2] - 128) * 64 + (cb[3] - 128)
    ELSE IF Len(cb) = 4 /\ utf8_char_len(cb[1]) = 4 /\ IsCont(cb[2]) /\ IsCont(cb[3]) /\ IsCont(cb[4])
        THEN (cb[1] - 240) * 262144 + (cb[2] - 128) * 4096 + (cb[3] - 128) * 64 + (cb[4] - 128)
    ELSE -1

\* an outcome of Encoding::next_char: Some((ch, rest)), None, or the call unwinding
NextChar(k, ch, rest, what) == [k |-> k, ch |-> ch, rest |-> rest, what |-> what]

\* Encoding::next_char, lines 26-34: the outcomes once char_len is known.  split_at
\* panics past the end of the slice; from_utf8_unchecked on bytes that are not UTF-8 is
\* undefined behaviour, which may unwind or yield some character
next_char_split(enc, bytes, char_len) ==
    IF char_len > Len(bytes) THEN {NextChar("panic", 0, <<>>, "split_at")}
    ELSE IF enc \in {"Utf16Be", "Utf16Le"} THEN {NextChar("panic", 0, <<>>, "todo")}
    ELSE IF decode_char("Utf8", SubSeq(bytes, 1, char_len)) # -1
    THEN {NextChar("some", decode_char("Utf8", SubSeq(bytes, 1, char_len)),
                   Drop(bytes, char_len), "")}
    ELSE {NextChar("panic", 0, <<>>, "undefined"),
          NextChar("some", 65533, Drop(bytes, char_len), "undefined"),
          NextChar("some", bytes[1], Drop(bytes, char_len), "undefined")}

\* Encoding::next_char(bytes) -> Option<(char, &[u8])>: the set of its outcomes
next_char(enc, bytes) ==
    IF enc = "Utf8" /\ bytes = <<>> THEN {NextChar("none", 0, <<>>, "")}
    ELSE IF enc = "Utf8" /\ utf8_char_len(bytes[1]) = 0
    THEN {NextChar("panic", 0, <<>>, "unwrap")}
    ELSE next_char_split(enc, bytes,
             IF enc = "Utf8" THEN utf8_char_len(bytes[1])
             ELSE IF enc \in {"Utf16Be", "Utf16Le"} THEN 2 ELSE 1)

(***************************************************************************)
(* error.rs: errors are records [type, tok].  "Panic" is not a value of    *)
(* the Error enum: it marks a call that unwinds (todo!, a slice index out   *)
(* of range) so that it travels up the call chain like `?` does.           *)
(***************************************************************************)
UnexpectedToken(tok) == [type |-> "UnexpectedToken", tok |-> tok]
IoInvalidData == [type |-> "Io", tok |-> "InvalidData"]
Panic(what) == [type |-> "Panic", tok |-> what]
NoError == [type |-> "NoError", tok |-> ""]

\* the variants of SyntaxError (and the UnexpectedToken the parsers raise)
SyntaxError ==
    {"UnexpectedToken", "MismatchedToken", "UnclosedDelimiter", "UnexpectedDelimiter",
     "UnexpectedEof"}

(***************************************************************************)
(* The byte source (a std::io::BufRead) under the StreamReader.  It has    *)
(* consumed rd bytes; it delivers stream[1..split] first and the rest once  *)
(* the first delivery is consumed.  split = Len(stream) is one delivery.    *)
(* consume(amt) with amt above what fill_buf returned breaks BufRead's     *)
(* contract: a slice source panics, a BufReader clamps (field clamp).      *)
(***************************************************************************)
BufRead_fill_buf(reader) ==
    IF reader.rd < reader.split
    THEN SubSeq(stream, reader.rd + 1, reader.split)
    ELSE SubSeq(stream, reader.rd + 1, Len(stream))

BufRead_consume(reader, amt) ==
    LET avail == Len(BufRead_fill_buf(reader))
    IN  [reader EXCEPT !.rd = @ + (IF amt <= avail THEN amt ELSE avail)]

(***************************************************************************)
(* stream_reader.rs: StreamReader                                          *)
(***************************************************************************)
StreamReader_new(split, clamp) ==
    [reader |-> [rd |-> 0, split |-> split, clamp |-> clamp],
     enc |-> "None", pos |-> 0, shift |-> 0,
     log |-> <<>>]      \* history, not a field: the try_parse attempts of the current call

\* StreamReader::fill_buf: &self.reader.fill_buf()?[shift..]
fill_buf(s) == Drop(BufRead_fill_buf(s.reader), s.shift)

\* whether StreamReader::consume(amt) asks the source for more than it holds
Overconsumes(s, amt) == amt > 0 /\ amt + s.shift > Len(BufRead_fill_buf(s.reader))

\* a consume that forgets to reset the lookahead offset (line 38)
consume_keeping_shift(s, amt) ==
    IF amt = 0 THEN s
    ELSE [s EXCEPT !.pos = @ + amt + s.shift,
                   !.reader = BufRead_consume(@, amt + s.shift)]

\* StreamReader::consume
consume(s, amt) ==
    IF amt = 0 THEN s
    ELSE [s EXCEPT !.shift = 0,
                   !.pos = @ + amt + s.shift,
                   !.reader = BufRead_consume(@, amt + s.shift)]

\* StreamReader::encoding: the reader after the call (its enc field is the result)
encoding(s) ==
    IF s.enc = "None" /\ s.pos = 0 /\ s.shift = 0
    THEN LET d == detect(fill_buf(s))
         IN  [consume(s, d.bom_len) EXCEPT !.enc = d.enc]
    ELSE IF s.enc = "None" THEN [s EXCEPT !.enc = "Utf8"]
    ELSE s

\* XmlSource::pos
pos(s) == <<s.pos, s.shift>>

\* XmlSource::shift
shift(s, n) == [s EXCEPT !.shift = @ + n]

\* read.rs, SourceReader::go_back on a ReaderState [pos, skipped]: the state after the
\* call and the value returned
go_back(state, n) ==
    IF n <= state.skipped THEN [state |-> [state EXCEPT !.skipped = @ - n], v |-> TRUE]
    ELSE [state |-> state, v |-> FALSE]

\* an unshift without the n.min(self.shift) of line 64
unshift_unbounded(s, n) == [s EXCEPT !.shift = @ - n]

\* XmlSource::unshift
unshift(s, n) == [s EXCEPT !.shift = @ - (IF n < @ THEN n ELSE @)]

\* StreamReader::is_empty
StreamReader_is_empty(s) == fill_buf(s) = <<>>

\* StreamReader::accept: TRUE stands for Some(needle.len())
StreamReader_accept(s, needle) == StartsWith(fill_buf(s), needle)

(***************************************************************************)
(* parse/token/rules.rs: the lexical rules.  A stateless rule is a         *)
(* predicate on a character; a closure is a step [ok, st] on its captured  *)
(* state st and a character.                                               *)
(***************************************************************************)
InRange(ch, lo, hi) == ch >= lo /\ ch <= hi

accept_as_char(ch) ==
    \/ ch \in {9, 10, 13}
    \/ InRange(ch, 32, 55295)
    \/ InRange(ch, 57344, 65533)
    \/ InRange(ch, 65536, 1114111)

accept_as_white_space(ch) == ch \in {32, 9, 13, 10}

accept_as_name_start_char(ch) ==
    \/ ch = 58                      \* :
    \/ InRange(ch, 65, 90)          \* A-Z
    \/ ch = 95                      \* _
    \/ InRange(ch, 97, 122)         \* a-z
    \/ InRange(ch, 192, 214)
    \/ InRange(ch, 216, 246)
    \/ InRange(ch, 248, 767)
    \/ InRange(ch, 880, 893)
    \/ InRange(ch, 895, 8191)
    \/ InRange(ch, 8204, 8205)
    \/ InRange(ch, 8304, 8591)
    \/ InRange(ch, 11264, 12271)
    \/ InRange(ch, 12289, 55295)
    \/ InRange(ch, 63744, 64975)
    \/ InRange(ch, 65008, 65533)
    \/ InRange(ch, 65536, 983039)

accept_as_name_char(ch) ==
    \/ accept_as_name_start_char(ch)
    \/ ch = 45                      \* -
    \/ ch = 46                      \* .
    \/ InRange(ch, 48, 57)          \* 0-9
    \/ ch = 183
    \/ InRange(ch, 768, 879)
    \/ InRange(ch, 8255, 8256)

accept_as_att_value(ch) == ch \notin {60, 38}     \* not < and not &

\* accept_as_name(): st is is_start_char
accept_as_name(is_start_char, ch) ==
    IF is_start_char
    THEN [ok |-> accept_as_name_start_char(ch), st |-> FALSE]
    ELSE [ok |-> accept_as_name_char(ch), st |-> is_start_char]

\* a comment rule that leaves out previous_was_a_hyphen = current_is_a_hyphen (line 77)
accept_as_comment_forgetful(previous_was_a_hyphen, ch) ==
    [ok |-> IF ch = 45 THEN ~previous_was_a_hyphen ELSE accept_as_char(ch),
     st |-> previous_was_a_hyphen]

\* accept_as_comment(): st is previous_was_a_hyphen
accept_as_comment(previous_was_a_hyphen, ch) ==
    LET current_is_a_hyphen == ch = 45
        is_accepted == IF current_is_a_hyphen THEN ~previous_was_a_hyphen
                       ELSE accept_as_char(ch)
    IN  [ok |-> is_accepted, st |-> current_is_a_hyphen]

CDATA_CLOSE_DELIM == <<93, 93, 62>>     \* ]]>

\* ch.len_utf8()
len_utf8(ch) == IF ch < 128 THEN 1 ELSE IF ch < 2048 THEN 2 ELSE IF ch < 65536 THEN 3 ELSE 4

\* accept_as_char_data(): st is matched_bytes_count
accept_as_char_data(matched_bytes_count, ch) ==
    LET m == IF StartsWith(Drop(CDATA_CLOSE_DELIM, matched_bytes_count), <<ch>>)
             THEN matched_bytes_count + len_utf8(ch)
             ELSE 0
    IN  [ok |-> m < Len(CDATA_CLOSE_DELIM) /\ ch \notin {60, 38}, st |-> m]

\* the state a rule closure is created with ($rule in define_literals!)
RuleInit(r) ==
    CASE r = "Name"    -> TRUE
      [] r = "Comment" -> FALSE
      [] r = "Text"    -> 0
      [] OTHER         -> FALSE

\* one call of the rule of literal r
RuleStep(r, rs, ch) ==
    CASE r = "S"        -> [ok |-> accept_as_white_space(ch), st |-> rs]
      [] r = "Comment"  -> accept_as_comment(rs, ch)
      [] r = "Name"     -> accept_as_name(rs, ch)
      [] r = "AttValue" -> [ok |-> accept_as_att_value(ch), st |-> rs]
      [] r = "Text"     -> accept_as_char_data(rs, ch)

(***************************************************************************)
(* Results of the cursor and parsing functions are [c, k, v, e]: the       *)
(* cursor after the call, k = "ok" (Ok(v) / Ok(Some(v))), "none"           *)
(* (Ok(None)) or "err" (Err(e)).  A function that goes through several     *)
(* steps has one operator a step, named after the function and the value   *)
(* the step has just obtained; an error among them ends the function, as   *)
(* the ? operator does.                                                    *)
(***************************************************************************)
Ok(c, v) == [c |-> c, k |-> "ok", v |-> v, e |-> NoError]
None(c) == [c |-> c, k |-> "none", v |-> <<>>, e |-> NoError]
Err(c, e) == [c |-> c, k |-> "err", v |-> <<>>, e |-> e]

\* Option::ok_or_else(|| SyntaxError::UnexpectedToken(display))
OrUnexpected(r, display) ==
    IF r.k = "none" THEN Err(r.c, UnexpectedToken(display)) ELSE r

(***************************************************************************)
(* The predicate StreamReader::take_while is called with: the rule itself  *)
(* (P.delim empty) or the closure ReadUntil::take_while wraps around it,   *)
(* which tracks the closing delimiter in matched / taken.                  *)
(***************************************************************************)
PredInit(P) == [rs |-> RuleInit(P.rule), matched |-> 0, taken |-> 0]

\* stream_reader.rs:234-244, the closure: matched / taken after the delimiter test
PredWrapped(P, ps, ch, matched, taken) ==
    IF matched < Len(P.delim)
    THEN [ok |-> RuleStep(P.rule, ps.rs, ch).ok,
          ps |-> [rs |-> RuleStep(P.rule, ps.rs, ch).st, matched |-> matched, taken |-> taken]]
    ELSE [ok |-> FALSE, ps |-> [rs |-> ps.rs, matched |-> matched, taken |-> taken]]

PredStep(P, ps, ch) ==
    IF P.delim = <<>>
    THEN [ok |-> RuleStep(P.rule, ps.rs, ch).ok,
          ps |-> [ps EXCEPT !.rs = RuleStep(P.rule, ps.rs, ch).st]]
    ELSE IF StartsWith(Drop(P.delim, ps.matched), <<ch>>)
    THEN PredWrapped(P, ps, ch, ps.matched + len_utf8(ch), ps.matched)
    ELSE PredWrapped(P, ps, ch, 0, 0)

(***************************************************************************)
(* StreamReader::take_while.  L is the loop's state: the reader s, pos,    *)
(* char_len, char_buf, result, error, and the predicate's state ps.        *)
(***************************************************************************)
\* map_while: the predicate's verdict p on the decoded character ch; at the first
\* rejection the iteration stops
ScanVerdict(L, ch, p) ==
    IF p.ok
    THEN [L EXCEPT !.ps = p.ps, !.pos = @ + L.char_len, !.result = Append(@, ch)]
    ELSE [L EXCEPT !.ps = p.ps, !.stopped = TRUE]

\* filter_map: char_buf is complete and decodes to ch (-1: to nothing)
ScanDecoded(P, L, ch) ==
    IF ch = -1 THEN L ELSE ScanVerdict(L, ch, PredStep(P, L.ps, ch))

\* filter_map: after char_buf.push(byte)
ScanPushed(enc, P, L) ==
    IF Len(L.char_buf) # L.char_len THEN L
    ELSE ScanDecoded(P, L, decode_char(enc, L.char_buf))

\* filter_map: one byte; cb0 is char_buf after the clear, lead whether the byte starts a
\* UTF-8 character
ScanByte(enc, P, L, byte, cb0, lead) ==
    IF lead /\ utf8_char_len(byte) = 0
    THEN [L EXCEPT !.char_buf = cb0, !.error = IoInvalidData, !.stopped = TRUE]
    ELSE ScanPushed(enc, P,
           [L EXCEPT !.char_buf = Append(cb0, byte),
                     !.char_len = IF lead THEN utf8_char_len(byte) ELSE @])

RECURSIVE ScanBytes(_, _, _, _, _, _)

\* the filter_map / map_while pipeline over the bytes lo..hi of one buffer, in order
\* (the range is halved so that the evaluation nests no deeper than its logarithm)
ScanBytes(enc, P, buf, lo, hi, L) ==
    IF lo > hi \/ L.stopped THEN L
    ELSE IF lo = hi
    THEN ScanByte(enc, P, L, buf[lo],
           IF Len(L.char_buf) = L.char_len THEN <<>> ELSE L.char_buf,
           (Len(L.char_buf) = L.char_len \/ L.char_buf = <<>>) /\ enc = "Utf8")
    ELSE ScanBytes(enc, P, buf, ((lo + hi) \div 2) + 1, hi,
                   ScanBytes(enc, P, buf, lo, (lo + hi) \div 2, L))

TakeResult(s, k, v, e, ps) == [s |-> s, k |-> k, v |-> v, e |-> e, ps |-> ps]

RECURSIVE take_while_loop(_, _, _)

\* the loop body, lines 131-138, after the pipeline ran over a buffer of buf_len bytes
take_while_scanned(enc, P, buf_len, L) ==
    IF L.error # NoError THEN TakeResult(L.s, "err", <<>>, L.error, L.ps)
    ELSE IF Overconsumes(L.s, L.pos) /\ ~L.s.reader.clamp
    THEN TakeResult(consume(L.s, L.pos), "err", <<>>, Panic("consume"), L.ps)
    ELSE IF Len(L.char_buf) = L.char_len /\ L.pos < buf_len
    THEN TakeResult(consume(L.s, L.pos), "ok", L.result, NoError, L.ps)
    ELSE take_while_loop(enc, P, [L EXCEPT !.s = consume(L.s, L.pos), !.stopped = FALSE])

\* the loop body, lines 93-129, buf being self.fill_buf()
take_while_buf(enc, P, L, buf) ==
    IF buf = <<>> THEN TakeResult(L.s, "ok", L.result, NoError, L.ps)
    ELSE take_while_scanned(enc, P, Len(buf), ScanBytes(enc, P, buf, 1, Len(buf), L))

\* the loop of StreamReader::take_while
take_while_loop(enc, P, L) == take_while_buf(enc, P, L, fill_buf(L.s))

\* StreamReader::take_while once self.encoding() has returned
take_while_start(s, P) ==
    take_while_loop(s.enc, P,
        [s |-> s, pos |-> 0, char_len |-> bytes_per_char(s.enc), char_buf |-> <<>>,
         result |-> <<>>, ps |-> PredInit(P), error |-> NoError, stopped |-> FALSE])

\* StreamReader::take_while(predicate): [s, k, v, e] and the closure's last state ps
StreamReader_take_while(s, P) ==
    IF StreamReader_is_empty(s) THEN TakeResult(s, "ok", <<>>, NoError, PredInit(P))
    ELSE take_while_start(encoding(s), P)

(***************************************************************************)
(* stream_reader.rs: ReadUntil.  A cursor c is [s, delim, is_ended]: the   *)
(* StreamReader itself when delim is empty, else a ReadUntil over it.      *)
(***************************************************************************)
Root(s) == [s |-> s, delim |-> <<>>, is_ended |-> FALSE]

\* StreamReader::read_until / ReadUntil::read_until / ReadUntil::new
read_until(c, delim) == [s |-> c.s, delim |-> delim, is_ended |-> FALSE]

\* the parent cursor once the ReadUntil borrowed from it is dropped
Back(c, sub) == [c EXCEPT !.s = sub.s]

\* a result of parsing inside a ReadUntil, handed back to the cursor c it borrowed from
Leave(c, r) == [r EXCEPT !.c = Back(c, r.c)]

\* ReadUntil::is_empty: the cursor after the call and the answer v
ReadUntil_is_empty(c) ==
    IF c.is_ended \/ StreamReader_is_empty(c.s) THEN [c |-> c, v |-> TRUE]
    ELSE IF StartsWith(fill_buf(c.s), c.delim)
    THEN [c |-> [c EXCEPT !.is_ended = TRUE, !.s = consume(@, Len(c.delim))], v |-> TRUE]
    ELSE [c |-> [c EXCEPT !.is_ended = FALSE], v |-> FALSE]

\* XmlSource::is_empty
is_empty(c) ==
    IF c.delim = <<>> THEN [c |-> c, v |-> StreamReader_is_empty(c.s)]
    ELSE ReadUntil_is_empty(c)

\* ReadUntil::accept after its self.is_empty()? returned e
ReadUntil_accept_open(e, needle) ==
    IF e.v THEN [c |-> e.c, v |-> FALSE]
    ELSE [c |-> e.c, v |-> StartsWith(fill_buf(e.c.s), needle)]

\* ReadUntil::accept
ReadUntil_accept(c, needle) == ReadUntil_accept_open(ReadUntil_is_empty(c), needle)

\* XmlSource::accept: v = TRUE stands for Some(needle.len())
accept(c, needle) ==
    IF c.delim = <<>> THEN [c |-> c, v |-> StreamReader_accept(c.s, needle)]
    ELSE ReadUntil_accept(c, needle)

\* ReadUntil::take_while, lines 247-264: after self.inner.take_while returned t
ReadUntil_take_while_taken(c, t) ==
    IF t.k = "err" THEN Err([c EXCEPT !.s = t.s], t.e)
    ELSE IF StartsWith(fill_buf(t.s), Drop(c.delim, t.ps.taken))
    THEN Ok([c EXCEPT !.is_ended = TRUE, !.s = consume(t.s, Len(c.delim) - t.ps.taken)],
            SubSeq(t.v, 1, Len(t.v) - t.ps.taken))
    ELSE Ok([c EXCEPT !.is_ended = FALSE, !.s = t.s], t.v)

\* ReadUntil::take_while after its self.is_empty()? returned e
ReadUntil_take_while_open(e, lit) ==
    IF e.v THEN Ok(e.c, <<>>)
    ELSE ReadUntil_take_while_taken(e.c,
           StreamReader_take_while(e.c.s, [rule |-> lit, delim |-> e.c.delim]))

\* ReadUntil::take_while
ReadUntil_take_while(c, lit) == ReadUntil_take_while_open(ReadUntil_is_empty(c), lit)

\* the StreamReader's own take_while as a result on the cursor c
Taken(c, t) == [c |-> [c EXCEPT !.s = t.s], k |-> t.k, v |-> t.v, e |-> t.e]

\* XmlSource::read_while (StreamReader::take_while / ReadUntil::take_while)
read_while(c, lit) ==
    IF c.delim = <<>>
    THEN Taken(c, StreamReader_take_while(c.s, [rule |-> lit, delim |-> <<>>]))
    ELSE ReadUntil_take_while(c, lit)

(***************************************************************************)
(* token.rs                                                                *)
(***************************************************************************)
\* define_delimiters! (display is the text the source puts between backquotes)
XmlDeclDelim == [start |-> <<60, 63, 120, 109, 108>>, end |-> <<63, 62>>, display |-> "<?xml"]
PiDelim      == [start |-> <<60, 63>>, end |-> <<63, 62>>, display |-> "<?"]
CommDelim    == [start |-> <<60, 33, 45, 45>>, end |-> <<45, 45, 62>>, display |-> "<!--"]
STagDelim    == [start |-> <<60>>, end |-> <<62>>, display |-> "<"]
ETagDelim    == [start |-> <<60, 47>>, end |-> <<62>>, display |-> "</"]
SQuoteDelim  == [start |-> <<39>>, end |-> <<39>>, display |-> "'"]
DQuoteDelim  == [start |-> <<34>>, end |-> <<34>>, display |-> "\""]

\* define_literals!: the delimiters a literal may be enclosed in
LitDelims(lit) ==
    CASE lit = "Comment"  -> <<CommDelim>>
      [] lit = "AttValue" -> <<DQuoteDelim, SQuoteDelim>>
      [] OTHER            -> <<>>

\* token::try_parse_punct, a being input.accept(punct)
Shifted(a, punct) ==
    IF a.v THEN Ok([a.c EXCEPT !.s = shift(@, Len(punct))], punct) ELSE None(a.c)

\* token::try_parse_punct
try_parse_punct(c, punct) == Shifted(accept(c, punct), punct)

\* parse.rs, Delimited::is_empty, line 133 and the return: ended is is_ended after line
\* 132, p is self.inner.opt_parse_punct(&self.delim), which lines 54-59 define as
\* try_parse_punct is defined
Delimited_is_empty_punct(c, ended, p) ==
    [c |-> [c EXCEPT !.is_ended = ended \/ p.k = "ok", !.s = p.c.s],
     v |-> ended \/ p.k = "ok"]

\* parse.rs, Delimited::is_empty: both |= assignments evaluate their right-hand side
Delimited_is_empty(c) ==
    Delimited_is_empty_punct(c, c.is_ended \/ StreamReader_is_empty(c.s),
                             try_parse_punct(Root(c.s), c.delim))

\* XmlSource::parse_punct, and Parse::parse of a punctuation
parse_punct(c, punct, display) == OrUnexpected(try_parse_punct(c, punct), display)

\* XmlSource::delimited, p being D::parse(self): on Ok the cursor is the ReadUntil
Content(p, D) == IF p.k = "err" THEN p ELSE Ok(read_until(p.c, D.end), <<>>)

\* XmlSource::delimited
delimited(c, D) == Content(parse_punct(c, D.start, D.display), D)

\* a try_parse_lit without the token.is_empty() test of lines 91-93
NonEmpty_or_not(token) == token

\* token::try_parse_lit, token being input.read_while(rule)
NonEmpty(token) ==
    IF token.k = "err" THEN token
    ELSE IF token.v = <<>> THEN None(token.c)
    ELSE token

\* token::try_parse_lit
try_parse_lit(c, lit) == NonEmpty(read_while(c, lit))

RECURSIVE Literal_try_parse_in(_, _, _)

\* define_literals!, lines 183-187: p is try_parse_punct(input, $delim::PUNCT) of the
\* i-th delimiter
Literal_enclosed(lit, i, p) ==
    IF p.k = "ok"
    THEN Leave(p.c, try_parse_lit(read_until(p.c, LitDelims(lit)[i].end), lit))
    ELSE Literal_try_parse_in(p.c, lit, i + 1)

\* define_literals!: Parse::try_parse of an enclosed literal, from its i-th delimiter
Literal_try_parse_in(c, lit, i) ==
    IF i > Len(LitDelims(lit)) THEN None(c)
    ELSE Literal_enclosed(lit, i, try_parse_punct(c, LitDelims(lit)[i].start))

\* define_literals!: Parse::try_parse of a literal
Literal_try_parse(c, lit) ==
    IF LitDelims(lit) = <<>> THEN try_parse_lit(c, lit)
    ELSE Literal_try_parse_in(c, lit, 1)

\* define_literals!: Parse::parse of a literal
Literal_parse(c, lit) == OrUnexpected(Literal_try_parse(c, lit), lit)

\* Backtracks without the comparison of the committed positions
Backtracks_any_pos(c0, r) ==
    /\ r.k = "err"
    /\ r.e.type = "UnexpectedToken"

\* whether Parse::try_parse turns the failure r of an attempt begun at c0 into None
Backtracks(c0, r) ==
    /\ r.k = "err"
    /\ r.e.type = "UnexpectedToken"
    /\ pos(r.c.s)[1] = pos(c0.s)[1]

\* Backtracked without the unshift
Backtracked_no_unshift(c0, r) ==
    IF Backtracks(c0, r) THEN None(r.c) ELSE r

\* what Parse::try_parse returns for the result r of Self::parse(input) begun at c0
Backtracked(c0, r) ==
    IF Backtracks(c0, r)
    THEN None([r.c EXCEPT !.s = unshift(@, pos(r.c.s)[2] - pos(c0.s)[2])])
    ELSE r

\* history: the attempt, entered in the log
Logged(what, c0, r, out) ==
    [out EXCEPT !.c.s.log = Append(@,
        [what |-> what, pos_before |-> pos(c0.s), pos_failed |-> pos(r.c.s),
         pos_after |-> pos(out.c.s), parsed |-> r.k, v |-> r.v, e |-> r.e,
         out |-> out.k, oe |-> out.e])]

\* Parse::try_parse (the default): r is the result of Self::parse(input) begun at c0
try_parse(what, c0, r) == Logged(what, c0, r, Backtracked(c0, r))

(***************************************************************************)
(* reader.rs: the grammar                                                  *)
(***************************************************************************)
\* Eq::parse, from line 18 on
Eq_parse_s2(s) == IF s.k = "err" THEN s ELSE Ok(s.c, <<>>)

\* Eq::parse, from line 17 on
Eq_parse_eq(eq) ==
    IF eq.k = "err" THEN eq ELSE Eq_parse_s2(Literal_try_parse(eq.c, "S"))

\* Eq::parse, from line 16 on
Eq_parse_s1(s) ==
    IF s.k = "err" THEN s ELSE Eq_parse_eq(parse_punct(s.c, <<61>>, "="))

\* Eq::parse
Eq_parse(input) == Eq_parse_s1(Literal_try_parse(input, "S"))

\* Attribute::parse, line 32
Attribute_parse_value(name, value) ==
    IF value.k = "err" THEN value ELSE Ok(value.c, <<name.v, value.v>>)

\* Attribute::parse, from line 30 on
Attribute_parse_eq(name, eq) ==
    IF eq.k = "err" THEN eq
    ELSE Attribute_parse_value(name, Literal_parse(eq.c, "AttValue"))

\* Attribute::parse, from line 29 on
Attribute_parse_name(name) ==
    IF name.k = "err" THEN name ELSE Attribute_parse_eq(name, Eq_parse(name.c))

\* Attribute::parse
Attribute_parse(input) == Attribute_parse_name(Literal_parse(input, "Name"))

Opt(r) == IF r.k = "ok" THEN <<r.v>> ELSE <<>>

\* XmlDecl::parse, lines 58-59 and 67-68
XmlDecl_pseudo_att_s(value, s) == IF s.k = "err" THEN s ELSE Ok(s.c, value.v)

\* XmlDecl::parse, lines 57-59 and 66-68
XmlDecl_pseudo_att_value(value) ==
    IF value.k = "err" THEN value
    ELSE XmlDecl_pseudo_att_s(value, Literal_try_parse(value.c, "S"))

\* XmlDecl::parse, lines 56-59 and 65-68
XmlDecl_pseudo_att_eq(eq) ==
    IF eq.k = "err" THEN eq ELSE XmlDecl_pseudo_att_value(Literal_parse(eq.c, "AttValue"))

\* XmlDecl::parse, lines 55-62 and 64-71, p being content.try_parse_punct(keyword)
XmlDecl_pseudo_att(p) == IF p.k # "ok" THEN p ELSE XmlDecl_pseudo_att_eq(Eq_parse(p.c))

\* XmlDecl::parse, lines 73-77
XmlDecl_parse_standalone(version, encoding_, standalone) ==
    IF standalone.k = "err" THEN standalone
    ELSE Ok(standalone.c,
            [type |-> "Xml", name |-> version.v,
             attrs |-> <<Opt(encoding_), Opt(standalone)>>])

\* XmlDecl::parse, from line 64 on
XmlDecl_parse_encoding(version, encoding_) ==
    IF encoding_.k = "err" THEN encoding_
    ELSE XmlDecl_parse_standalone(version, encoding_,
           XmlDecl_pseudo_att(
               try_parse_punct(encoding_.c,
                               <<115, 116, 97, 110, 100, 97, 108, 111, 110, 101>>)))

\* XmlDecl::parse, from line 55 on
XmlDecl_parse_s2(version, s) ==
    IF s.k = "err" THEN s
    ELSE XmlDecl_parse_encoding(version,
           XmlDecl_pseudo_att(
               try_parse_punct(s.c, <<101, 110, 99, 111, 100, 105, 110, 103>>)))

\* XmlDecl::parse, from line 53 on
XmlDecl_parse_version(version) ==
    IF version.k = "err" THEN version
    ELSE XmlDecl_parse_s2(version, Literal_try_parse(version.c, "S"))

\* XmlDecl::parse, from line 51 on
XmlDecl_parse_eq(eq) ==
    IF eq.k = "err" THEN eq ELSE XmlDecl_parse_version(Literal_parse(eq.c, "AttValue"))

\* XmlDecl::parse, from line 50 on
XmlDecl_parse_keyword(kw) == IF kw.k = "err" THEN kw ELSE XmlDecl_parse_eq(Eq_parse(kw.c))

\* XmlDecl::parse, from line 49 on
XmlDecl_parse_s1(s) ==
    IF s.k = "err" THEN s
    ELSE XmlDecl_parse_keyword(
           parse_punct(s.c, <<118, 101, 114, 115, 105, 111, 110>>, "version"))

\* XmlDecl::parse, from line 46 on
XmlDecl_parse_content(content) ==
    IF content.k = "err" THEN content
    ELSE XmlDecl_parse_s1(Literal_parse(content.c, "S"))

\* XmlDecl::parse
XmlDecl_parse(input) ==
    Leave(input, XmlDecl_parse_content(delimited(input, XmlDeclDelim)))

\* Pi::parse, line 91
Pi_parse_target(target) ==
    IF target.k = "err" THEN target
    ELSE Ok(target.c, [type |-> "Pi", name |-> target.v, attrs |-> <<>>])

\* Pi::parse, from line 89 on
Pi_parse_content(content) ==
    IF content.k = "err" THEN content
    ELSE Pi_parse_target(Literal_parse(content.c, "Name"))

\* Pi::parse
Pi_parse(input) == Leave(input, Pi_parse_content(delimited(input, PiDelim)))

RECURSIVE StartTag_parse_while(_, _)

\* StartTag::parse, lines 122-125, and the loop again
StartTag_parse_att(attrs, att) ==
    IF att.k = "err" THEN att
    ELSE StartTag_parse_while(att.c, IF att.k = "ok" THEN Append(attrs, att.v) ELSE attrs)

\* StartTag::parse, lines 120-125
StartTag_parse_s(attrs, s) ==
    IF s.k = "err" THEN s
    ELSE StartTag_parse_att(attrs, try_parse("Attribute", s.c, Attribute_parse(s.c)))

\* StartTag::parse, lines 119-125, e being content.is_empty()
StartTag_parse_is_empty(attrs, e) ==
    IF e.v THEN Ok(e.c, attrs) ELSE StartTag_parse_s(attrs, Literal_parse(e.c, "S"))

\* StartTag::parse, lines 119-125: the loop collecting the attributes
StartTag_parse_while(content, attrs) == StartTag_parse_is_empty(attrs, is_empty(content))

\* StartTag::parse, line 127
StartTag_parse_attrs(name, attrs) ==
    IF attrs.k = "err" THEN attrs
    ELSE Ok(attrs.c, [type |-> "STag", name |-> name.v, attrs |-> attrs.v])

\* StartTag::parse, from line 117 on
StartTag_parse_name(name) ==
    IF name.k = "err" THEN name
    ELSE StartTag_parse_attrs(name, StartTag_parse_while(name.c, <<>>))

\* StartTag::parse, from line 116 on
StartTag_parse_content(content) ==
    IF content.k = "err" THEN content
    ELSE StartTag_parse_name(Literal_parse(content.c, "Name"))

\* StartTag::parse
StartTag_parse(input) ==
    Leave(input, StartTag_parse_content(delimited(input, STagDelim)))

\* EndTag::parse, line 141
EndTag_parse_name(name) ==
    IF name.k = "err" THEN name
    ELSE Ok(name.c, [type |-> "ETag", name |-> name.v, attrs |-> <<>>])

\* EndTag::parse, from line 139 on
EndTag_parse_content(content) ==
    IF content.k = "err" THEN content
    ELSE EndTag_parse_name(Literal_parse(content.c, "Name"))

\* EndTag::parse
EndTag_parse(input) ==
    Leave(input, EndTag_parse_content(delimited(input, ETagDelim)))

\* a literal wrapped in its XmlEvent variant
LitEvent(type, r) ==
    IF r.k = "ok" THEN Ok(r.c, [type |-> type, name |-> r.v, attrs |-> <<>>]) ELSE r

\* try_parse_misc, from line 98 on
try_parse_misc_pi(pi) ==
    IF pi.k = "none" THEN LitEvent("Comment", Literal_try_parse(pi.c, "Comment")) ELSE pi

\* try_parse_misc, from line 96 on
try_parse_misc_s(s) ==
    IF s.k = "none" THEN try_parse_misc_pi(try_parse("Pi", s.c, Pi_parse(s.c)))
    ELSE LitEvent("S", s)

\* try_parse_misc
try_parse_misc(input) == try_parse_misc_s(Literal_try_parse(input, "S"))

(***************************************************************************)
(* reader.rs: EventReader.  An event is [type, name, attrs]; the result of *)
(* a next_event call is [kind, ev, err] with kind "event" (Ok), "err"      *)
(* (Err returned to the caller) or "panic" (the call unwinds).             *)
(***************************************************************************)
NoEvent == [type |-> "None", name |-> <<>>, attrs |-> <<>>]
EofEvent == [type |-> "Eof", name |-> <<>>, attrs |-> <<>>]

EventRes(ev) == [kind |-> "event", ev |-> ev, err |-> NoError]
ErrRes(e) == [kind |-> IF e.type = "Panic" THEN "panic" ELSE "err", ev |-> NoEvent, err |-> e]
Todo == [kind |-> "panic", ev |-> NoEvent, err |-> Panic("todo")]

\* the reader after a call and the call's result
Call(s, state, stack, res) == [src |-> s, st |-> state, path |-> stack, res |-> res]

\* next_event returns what r is, Err(e) by the ? operator or Ok(event), the state and the
\* stack being what they are then
Returned(r, state, stack) ==
    Call(r.c.s, state, stack, IF r.k = "err" THEN ErrRes(r.e) ELSE EventRes(r.v))

\* Opened without the push
Opened_no_push(s, stack, s_tag) == Call(s, "InElem", stack, EventRes(s_tag))

\* next_event, lines 209-211 and 229-230: a start tag was parsed
Opened(s, stack, s_tag) ==
    Call(s, "InElem", Append(stack, s_tag.name), EventRes(s_tag))

\* EndTag_pop entering AfterRoot whatever is left on the stack
EndTag_pop_to_root(s, stack, e_tag) ==
    IF stack # <<>> /\ e_tag.name = stack[Len(stack)]
    THEN Call(s, "AfterRoot", SubSeq(stack, 1, Len(stack) - 1), EventRes(e_tag))
    ELSE Call(s, "InElem", SubSeq(stack, 1, Len(stack) - 1), Todo)

\* next_event, lines 232-239: the end tag against the stack
EndTag_pop(s, stack, e_tag) ==
    IF stack # <<>> /\ e_tag.name = stack[Len(stack)]
    THEN Call(s, IF Len(stack) = 1 THEN "AfterRoot" ELSE "InElem",
              SubSeq(stack, 1, Len(stack) - 1), EventRes(e_tag))
    ELSE Call(s, "InElem", SubSeq(stack, 1, Len(stack) - 1), Todo)

\* next_event, State::AfterXml, from line 208 on
next_event_AfterXml_s_tag(s_tag, stack) ==
    IF s_tag.k = "none" THEN Call(s_tag.c.s, "AfterXml", stack, Todo)
    ELSE IF s_tag.k = "ok" THEN Opened(s_tag.c.s, stack, s_tag.v)
    ELSE Returned(s_tag, "AfterXml", stack)

\* next_event, State::AfterXml, from line 206 on
next_event_AfterXml_misc(misc, stack) ==
    IF misc.k = "none"
    THEN next_event_AfterXml_s_tag(
             try_parse("StartTag", misc.c, StartTag_parse(misc.c)), stack)
    ELSE Returned(misc, "AfterXml", stack)

\* next_event, State::AfterXml
next_event_AfterXml(s, stack) == next_event_AfterXml_misc(try_parse_misc(Root(s)), stack)

\* next_event_Start_xml_decl returning without entering AfterXml when no declaration is there
next_event_Start_xml_decl_no_redispatch(xml_decl, stack) ==
    IF xml_decl.k = "none" THEN Call(xml_decl.c.s, "AfterXml", stack, Todo)
    ELSE Returned(xml_decl, "AfterXml", stack)

\* next_event, State::Start, from line 199 on
next_event_Start_xml_decl(xml_decl, stack) ==
    IF xml_decl.k = "none" THEN next_event_AfterXml(xml_decl.c.s, stack)
    ELSE Returned(xml_decl, "AfterXml", stack)

\* next_event, State::Start
next_event_Start(s, stack) ==
    next_event_Start_xml_decl(try_parse("XmlDecl", Root(s), XmlDecl_parse(Root(s))), stack)

\* next_event_AfterText_comment returning an empty comment where nothing matches
next_event_AfterText_comment_or_empty(comment, stack) ==
    IF comment.k = "none"
    THEN Call(comment.c.s, "InElem", stack,
              EventRes([type |-> "Comment", name |-> <<>>, attrs |-> <<>>]))
    ELSE Returned(LitEvent("Comment", comment), "InElem", stack)

\* next_event, State::AfterText, from line 242 on
next_event_AfterText_comment(comment, stack) ==
    IF comment.k = "none" THEN Call(comment.c.s, "InElem", stack, Todo)
    ELSE Returned(LitEvent("Comment", comment), "InElem", stack)

\* next_event, State::AfterText, from line 240 on
next_event_AfterText_pi(pi, stack) ==
    IF pi.k = "none"
    THEN next_event_AfterText_comment(Literal_try_parse(pi.c, "Comment"), stack)
    ELSE Returned(pi, "InElem", stack)

\* next_event_AfterText_e_tag going on to Comment where no end tag is there
next_event_AfterText_e_tag_skipping_pi(e_tag, stack) ==
    IF e_tag.k = "none"
    THEN next_event_AfterText_comment(Literal_try_parse(e_tag.c, "Comment"), stack)
    ELSE IF e_tag.k = "ok" THEN EndTag_pop(e_tag.c.s, stack, e_tag.v)
    ELSE Returned(e_tag, "InElem", stack)

\* next_event, State::AfterText, from line 231 on
next_event_AfterText_e_tag(e_tag, stack) ==
    IF e_tag.k = "none"
    THEN next_event_AfterText_pi(try_parse("Pi", e_tag.c, Pi_parse(e_tag.c)), stack)
    ELSE IF e_tag.k = "ok" THEN EndTag_pop(e_tag.c.s, stack, e_tag.v)
    ELSE Returned(e_tag, "InElem", stack)

\* next_event, State::AfterText, from line 228 on
next_event_AfterText_s_tag(s_tag, stack) ==
    IF s_tag.k = "none"
    THEN next_event_AfterText_e_tag(
             try_parse("EndTag", s_tag.c, EndTag_parse(s_tag.c)), stack)
    ELSE IF s_tag.k = "ok" THEN Opened(s_tag.c.s, stack, s_tag.v)
    ELSE Returned(s_tag, "InElem", stack)

\* next_event, State::AfterText
next_event_AfterText(s, stack) ==
    next_event_AfterText_s_tag(
        try_parse("StartTag", Root(s), StartTag_parse(Root(s))), stack)

\* next_event_InElem_text returning without entering AfterText when no text is there
next_event_InElem_text_no_redispatch(text, stack) ==
    IF text.k = "none" THEN Call(text.c.s, "AfterText", stack, Todo)
    ELSE Returned(LitEvent("Text", text), "AfterText", stack)

\* next_event, State::InElem, from line 219 on
next_event_InElem_text(text, stack) ==
    IF text.k = "none" THEN next_event_AfterText(text.c.s, stack)
    ELSE Returned(LitEvent("Text", text), "AfterText", stack)

\* next_event, State::InElem
next_event_InElem(s, stack) ==
    next_event_InElem_text(Literal_try_parse(Root(s), "Text"), stack)

\* next_event, State::AfterRoot, from line 249 on
next_event_AfterRoot_misc(misc, stack) ==
    IF misc.k # "none" THEN Returned(misc, "AfterRoot", stack)
    ELSE IF StreamReader_is_empty(misc.c.s)
    THEN Call(misc.c.s, "Eof", stack, EventRes(EofEvent))
    ELSE Call(misc.c.s, "AfterRoot", stack, Todo)

\* next_event, State::AfterRoot
next_event_AfterRoot(s, stack) == next_event_AfterRoot_misc(try_parse_misc(Root(s)), stack)

\* next_event_Eof advancing the lookahead offset
next_event_Eof_shifting(s, stack) == Call(shift(s, 1), "Eof", stack, EventRes(EofEvent))

\* next_event, State::Eof
next_event_Eof(s, stack) == Call(s, "Eof", stack, EventRes(EofEvent))

\* EventReader::next_event
next_event(s, state, stack) ==
    CASE state = "Start"     -> next_event_Start(s, stack)
      [] state = "AfterXml"  -> next_event_AfterXml(s, stack)
      [] state = "InElem"    -> next_event_InElem(s, stack)
      [] state = "AfterText" -> next_event_AfterText(s, stack)
      [] state = "AfterRoot" -> next_event_AfterRoot(s, stack)
      [] state = "Eof"       -> next_event_Eof(s, stack)

(***************************************************************************)
(* The byte streams the model reads: every concatenation of at most        *)
(* MaxFrags of the fragments below, and the documents the specification    *)
(* and the tests name.                                                     *)
(***************************************************************************)
Fragments ==
    { <<60, 97, 62>>,                             \* <a>
      <<60, 47, 97, 62>>,                         \* </a>
      <<60, 47, 98, 62>>,                         \* </b>
      <<116>>,                                    \* t
      <<32>>,                                     \* a space
      <<60, 33, 45, 45, 99, 45, 45, 62>>,         \* <!--c-->
      <<60, 63, 112, 63, 62>>,                    \* <?p?>
      <<60, 33, 45, 45, 99>>,                     \* <!--c
      <<60, 63, 120, 109, 108, 32, 118, 101, 114, 115, 105, 111, 110, 61, 39, 49, 39,
        63, 62>>,                                 \* <?xml version='1'?>
      <<60, 98, 32, 120, 61, 39, 49, 39, 62>>,    \* <b x='1'>
      <<128>> }                                   \* 0x80, no first byte of a UTF-8 character

\* <?xml version="1.0" encoding="UTF-8"?><a><b>text</b></a>
D_Simple ==
    <<60, 63, 120, 109, 108, 32, 118, 101, 114, 115, 105, 111, 110, 61, 34, 49, 46, 48,
      34, 32, 101, 110, 99, 111, 100, 105, 110, 103, 61, 34, 85, 84, 70, 45, 56, 34, 63,
      62, 60, 97, 62, 60, 98, 62, 116, 101, 120, 116, 60, 47, 98, 62, 60, 47, 97, 62>>

\* the well-formed documents among those named below
WellFormed ==
    { D_Simple,
      \* <a>a]]b</a>
      <<60, 97, 62, 97, 93, 93, 98, 60, 47, 97, 62>>,
      \* <a>é</a>
      <<60, 97, 62, 195, 169, 60, 47, 97, 62>>,
      \* <a><b x='1'>t</b></a>
      <<60, 97, 62, 60, 98, 32, 120, 61, 39, 49, 39, 62, 116, 60, 47, 98, 62, 60, 47, 97,
        62>> }

\* <!-- unterminated
D_Unterminated ==
    <<60, 33, 45, 45, 32, 117, 110, 116, 101, 114, 109, 105, 110, 97, 116, 101, 100>>

\* <!--a--b-->
D_DoubleHyphen ==
    <<60, 33, 45, 45, 97, 45, 45, 98, 45, 45, 62>>

\* <a x="1" y='2'/>
D_EmptyElem ==
    <<60, 97, 32, 120, 61, 34, 49, 34, 32, 121, 61, 39, 50, 39, 47, 62>>

\* <a x="">
D_EmptyValue ==
    <<60, 97, 32, 120, 61, 34, 34, 62>>

\* <!---->
D_EmptyComment ==
    <<60, 33, 45, 45, 45, 45, 62>>

Curated ==
    WellFormed \cup
    { D_Unterminated, D_DoubleHyphen, D_EmptyElem, D_EmptyValue, D_EmptyComment,
      <<60, 97, 62, 60, 47, 98, 62>>,      \* <a></b>
      <<60, 97, 128, 62>>,                 \* <a 0x80 >
      <<60, 97, 62, 116, 195>>,            \* <a>t and the first byte of two
      <<60, 97, 62, 116, 226, 130>>,       \* <a>t and the first two bytes of three
      <<60, 63, 112, 32, 100, 63, 62>>,    \* <?p d?>
      <<60, 97, 62, 60, 47, 97, 32, 62>> } \* <a></a >

(***************************************************************************)
(* Documents described by the events they hold: an optional XML            *)
(* declaration, then properly nested elements a and b with text t.         *)
(***************************************************************************)
\* the text of one event
RenderEvent(ev) ==
    CASE ev.type = "STag" -> <<60>> \o ev.name \o <<62>>        \* <name>
      [] ev.type = "ETag" -> <<60, 47>> \o ev.name \o <<62>>    \* </name>
      [] ev.type = "Text" -> ev.name
      [] ev.type = "Xml"  ->
            <<60, 63, 120, 109, 108, 32, 118, 101, 114, 115, 105, 111, 110, 61, 34>>
                \o ev.name \o <<34>>                            \* <?xml version="..."
            \o (IF ev.attrs[1] = <<>> THEN <<>>
                ELSE <<32, 101, 110, 99, 111, 100, 105, 110, 103, 61, 34>>
                         \o ev.attrs[1][1] \o <<34>>)           \*  encoding="..."
            \o <<63, 62>>                                       \* ?>

RECURSIVE Render(_)
Render(evs) == IF evs = <<>> THEN <<>> ELSE RenderEvent(Head(evs)) \o Render(Tail(evs))

RECURSIVE Nesting(_, _, _)
\* whether the events of evs from the i-th on, read with the names of open on the
\* stack, are properly nested: one root element, every end tag closing the element
\* opened last, text inside elements only and no two texts in a row
Nesting(evs, i, open) ==
    IF i > Len(evs) THEN open = <<>> /\ evs # <<>>
    ELSE IF evs[i].type = "STag"
    THEN (i = 1 \/ open # <<>>) /\ Nesting(evs, i + 1, Append(open, evs[i].name))
    ELSE IF evs[i].type = "ETag"
    THEN /\ open # <<>>
         /\ open[Len(open)] = evs[i].name
         /\ Nesting(evs, i + 1, SubSeq(open, 1, Len(open) - 1))
    ELSE /\ open # <<>>
         /\ evs[i - 1].type # "Text"
         /\ Nesting(evs, i + 1, open)

\* the event sequences of the documents: at most MaxEvents events of elements and text,
\* after no XML declaration, one with a version, or one with a version and an encoding
NestedEvents ==
    LET Tag(type, name) == [type |-> type, name |-> name, attrs |-> <<>>]
        Xml(enc) == [type |-> "Xml", name |-> <<49, 46, 48>>, attrs |-> <<enc, <<>>>>]
        Alphabet == {Tag("STag", <<97>>), Tag("STag", <<98>>), Tag("ETag", <<97>>),
                     Tag("ETag", <<98>>), Tag("Text", <<116>>)}
        Bodies == {evs \in SeqsUpTo(Alphabet, MaxEvents) : Nesting(evs, 1, <<>>)}
        Prologs == {<<>>, <<Xml(<<>>)>>, <<Xml(<< <<85, 84, 70, 45, 56>> >>)>>}
    IN  {p \o b : p \in Prologs, b \in Bodies}

Docs ==
    {Flatten(fs) : fs \in SeqsUpTo(Fragments, MaxFrags)} \cup Curated
        \cup {Render(evs) : evs \in NestedEvents}

(***************************************************************************)
(* The state machine: a caller that calls next_event again and again on a  *)
(* reader built by EventReader::from over the whole stream (one delivery). *)
(* A call that unwinds ends the reader; after an Err the caller may call   *)
(* again.                                                                  *)
(***************************************************************************)
NoReader == [src |-> StreamReader_new(0, FALSE), st |-> "Eof", path |-> <<>>, results |-> <<>>]
NoRule == [name |-> "None", chars |-> <<>>, fed |-> 0, st |-> 0, accepted |-> <<>>, stopped |-> TRUE]
NoProbe == [fn |-> "None", enc |-> "None", bytes |-> <<>>, done |-> TRUE, out |-> 0]

Snapshot(s, state, stack) == [src |-> s, st |-> state, path |-> stack]

LastOf(rs) == rs[Len(rs)]
Alive(rs) == IF rs = <<>> THEN TRUE ELSE LastOf(rs).kind # "panic"

\* EventReader::new / From<&str>
Init ==
    /\ stream \in Docs
    /\ src = StreamReader_new(Len(stream), FALSE)
    /\ st = "Start"
    /\ path = <<>>
    /\ results = <<>>
    /\ attempts = <<>>
    /\ before = Snapshot(src, st, path)
    /\ chunked = NoReader
    /\ rule = NoRule
    /\ probe = NoProbe

\* one next_event call whose outcome is r
Step(r) ==
    /\ Alive(results)
    /\ Len(results) < MaxCalls
    /\ src' = [r.src EXCEPT !.log = <<>>]
    /\ st' = r.st
    /\ path' = r.path
    /\ results' = Append(results, r.res)
    /\ attempts' = r.src.log
    /\ before' = Snapshot(src, st, path)
    /\ UNCHANGED <<stream, rule, probe>>

\* one next_event call on the only reader there is
Only(r) == Step(r) /\ UNCHANGED chunked

NextEventStart     == st = "Start"     /\ Only(next_event_Start(src, path))
NextEventAfterXml  == st = "AfterXml"  /\ Only(next_event_AfterXml(src, path))
NextEventInElem    == st = "InElem"    /\ Only(next_event_InElem(src, path))
NextEventAfterText == st = "AfterText" /\ Only(next_event_AfterText(src, path))
NextEventAfterRoot == st = "AfterRoot" /\ Only(next_event_AfterRoot(src, path))
NextEventEof       == st = "Eof"       /\ Only(next_event_Eof(src, path))

Next ==
    \/ NextEventStart
    \/ NextEventAfterXml
    \/ NextEventInElem
    \/ NextEventAfterText
    \/ NextEventAfterRoot
    \/ NextEventEof

Spec == Init /\ [][Next]_vars

(***************************************************************************)
(* Two deliveries: next to the reader over the whole stream, a second      *)
(* reader whose byte source delivers the first k bytes, then the rest; the *)
(* caller calls next_event on both in step.  The source of the second      *)
(* reader may clamp a consume past its buffer (BufReader) or not (slice).  *)
(***************************************************************************)
Reader(s) == [src |-> s, st |-> "Start", path |-> <<>>, results |-> <<>>]

\* the reader rdr after one next_event call whose outcome is r
Called(rdr, r) ==
    [src |-> [r.src EXCEPT !.log = <<>>], st |-> r.st, path |-> r.path,
     results |-> Append(rdr.results, r.res)]

InitSplit ==
    /\ stream \in WellFormed
    /\ src = StreamReader_new(Len(stream), FALSE)
    /\ st = "Start"
    /\ path = <<>>
    /\ results = <<>>
    /\ attempts = <<>>
    /\ before = Snapshot(src, st, path)
    /\ chunked \in {Reader(StreamReader_new(k, clamp)) :
                       k \in 1..(Len(stream) - 1), clamp \in BOOLEAN}
    /\ rule = NoRule
    /\ probe = NoProbe

\* one next_event call on each reader, r and r2 being their outcomes
Both(r, r2) ==
    /\ Step(r)
    /\ chunked' = Called(chunked, r2)

NextEventBoth ==
    /\ Alive(chunked.results)
    /\ Both(next_event(src, st, path), next_event(chunked.src, chunked.st, chunked.path))

SpecSplit == InitSplit /\ [][NextEventBoth]_vars

(***************************************************************************)
(* A byte-order mark: the stream is a well-formed UTF-8 document after the *)
(* UTF-8 byte-order mark.  The first reader reads the whole stream, the    *)
(* second one a source that holds the document only (the same bytes from   *)
(* behind the mark on); the caller calls next_event on both in step.       *)
(***************************************************************************)
\* well-formed documents: a prolog, a root element, an epilog
WellFormedDocs ==
    LET Prologs ==
            { <<>>,
              <<60, 63, 120, 109, 108, 32, 118, 101, 114, 115, 105, 111, 110, 61, 39, 49,
                39, 63, 62>>,                         \* <?xml version='1'?>
              <<60, 33, 45, 45, 99, 45, 45, 62>>,     \* <!--c-->
              <<32>> }                                \* a space
        Roots ==
            { <<60, 97, 62, 60, 47, 97, 62>>,                     \* <a></a>
              <<60, 97, 62, 116, 60, 47, 97, 62>>,                \* <a>t</a>
              <<60, 97, 62, 60, 98, 62, 116, 60, 47, 98, 62, 60, 47, 97, 62>>,
                                                                  \* <a><b>t</b></a>
              <<60, 97, 32, 120, 61, 39, 49, 39, 62, 60, 47, 97, 62>> }
                                                                  \* <a x='1'></a>
        Epilogs ==
            { <<>>,
              <<32>>,                                 \* a space
              <<60, 33, 45, 45, 99, 45, 45, 62>> }    \* <!--c-->
    IN  WellFormed \cup {p \o r \o e : p \in Prologs, r \in Roots, e \in Epilogs}

InitBom ==
    /\ stream \in {UTF_8_BOM \o d : d \in WellFormedDocs}
    /\ src = StreamReader_new(Len(stream), FALSE)
    /\ st = "Start"
    /\ path = <<>>
    /\ results = <<>>
    /\ attempts = <<>>
    /\ before = Snapshot(src, st, path)
    /\ chunked = Reader([StreamReader_new(Len(stream), FALSE)
                            EXCEPT !.reader.rd = Len(UTF_8_BOM)])
    /\ rule = NoRule
    /\ probe = NoProbe

SpecBom == InitBom /\ [][NextEventBoth]_vars

(***************************************************************************)
(* A rule on its own: the characters of a sequence are fed to the closure  *)
(* accept_as_char_data() or accept_as_comment() returns, one by one, as    *)
(* take_while's map_while does, until it rejects one.                      *)
(***************************************************************************)
RuleChars == {93, 62, 97, 60}    \* ] > a <

CommentChars == {45, 97, 1, 65534}    \* - a U+0001 U+FFFE

InitRule ==
    /\ stream = <<>>
    /\ src = StreamReader_new(0, FALSE)
    /\ st = "Eof"
    /\ path = <<>>
    /\ results = <<>>
    /\ attempts = <<>>
    /\ before = Snapshot(src, st, path)
    /\ chunked = NoReader
    /\ rule \in {[name |-> "Text", chars |-> cs, fed |-> 0, st |-> RuleInit("Text"),
                  accepted |-> <<>>, stopped |-> FALSE] :
                    cs \in SeqsUpTo(RuleChars, MaxRuleLen)}
               \cup
               {[name |-> "Comment", chars |-> cs, fed |-> 0, st |-> 0,
                  accepted |-> <<>>, stopped |-> FALSE] :
                    cs \in SeqsUpTo(CommentChars, MaxRuleLen)}
    /\ probe = NoProbe

\* the state of the closure, which rule.st holds as a number: for the comment rule 1
\* stands for previous_was_a_hyphen = true and 0 for false (the closure starts with false)
RuleSt == IF rule.name = "Comment" THEN rule.st = 1 ELSE rule.st

RuleStNum(x) == IF rule.name = "Comment" THEN (IF x THEN 1 ELSE 0) ELSE x

\* the fields of rule after the closure's verdict p on the character ch
Fed(ch, p) ==
    [rule EXCEPT !.fed = @ + 1, !.st = RuleStNum(p.st), !.stopped = ~p.ok,
                 !.accepted = IF p.ok THEN Append(@, ch) ELSE @]

FeedChar ==
    /\ ~rule.stopped
    /\ rule.fed < Len(rule.chars)
    /\ rule' = Fed(rule.chars[rule.fed + 1],
                   RuleStep(rule.name, RuleSt, rule.chars[rule.fed + 1]))
    /\ UNCHANGED <<stream, src, st, path, results, attempts, before, chunked, probe>>

SpecRule == InitRule /\ [][FeedChar]_vars

(***************************************************************************)
(* The functions of encoding.rs on their own: detect on every sequence of  *)
(* at most MaxDetectLen of the bytes its patterns are made of,             *)
(* utf8_char_len on every byte, Encoding::next_char on every encoding and  *)
(* every sequence of at most MaxCharBytes bytes.                           *)
(***************************************************************************)
DetectBytes == {0, 60, 63, 120, 109, 239, 187, 191, 254, 255}
CharBytes == {97, 195, 169, 226, 128, 248}
Encodings == {"Ascii", "Utf8", "Utf16Be", "Utf16Le"}

Probe(fn, enc, bytes) == [fn |-> fn, enc |-> enc, bytes |-> bytes, done |-> FALSE, out |-> 0]

InitEncoding ==
    /\ stream = <<>>
    /\ src = StreamReader_new(0, FALSE)
    /\ st = "Eof"
    /\ path = <<>>
    /\ results = <<>>
    /\ attempts = <<>>
    /\ before = Snapshot(src, st, path)
    /\ chunked = NoReader
    /\ rule = NoRule
    /\ probe \in {Probe("detect", "None", bs) : bs \in SeqsUpTo(DetectBytes, MaxDetectLen)}
            \cup {Probe("utf8_char_len", "None", <<b>>) : b \in 0..255}
            \cup {Probe("next_char", enc, bs) :
                      enc \in Encodings, bs \in SeqsUpTo(CharBytes, MaxCharBytes)}

\* the probe once the function has returned out
Probed(out) ==
    /\ ~probe.done
    /\ probe' = [probe EXCEPT !.done = TRUE, !.out = out]
    /\ UNCHANGED <<stream, src, st, path, results, attempts, before, chunked, rule>>

Detect == probe.fn = "detect" /\ Probed(detect(probe.bytes))

Utf8CharLen == probe.fn = "utf8_char_len" /\ Probed(utf8_char_len(probe.bytes[1]))

NextCharCall ==
    /\ probe.fn = "next_char"
    /\ \E out \in next_char(probe.enc, probe.bytes) : Probed(out)

NextEncoding == Detect \/ Utf8CharLen \/ NextCharCall

SpecEncoding == InitEncoding /\ [][NextEncoding]_vars

(***************************************************************************)
(* A cursor on its own: the caller applies accept, try_parse_punct (an     *)
(* accept and the shift that follows a match), unshift, take_while and     *)
(* is_empty, in any order, to a StreamReader (probe.delim empty) or to a   *)
(* ReadUntil over it.  The input is made of at most MaxPieces pieces; the  *)
(* byte source delivers its first split bytes, then the rest, and holds    *)
(* the whole input at once when split is its length.                       *)
(***************************************************************************)
Pieces == { <<97>>, <<45>>, <<62>>, <<195, 169>>, <<45, 45, 62>>, <<97, 45>> }
Needles == { <<97>>, <<45, 45>> }
Delims == { <<>>, <<62>>, <<45, 45, 62>> }
Rules == { "Name", "Comment" }

\* the cursor the state holds
Cursor == [s |-> src, delim |-> probe.delim, is_ended |-> probe.is_ended]

InitCursor ==
    /\ stream \in {Flatten(ps) : ps \in SeqsUpTo(Pieces, MaxPieces)}
    /\ src \in {StreamReader_new(k, k < Len(stream)) :
                    k \in (IF stream = <<>> THEN 0 ELSE 1)..Len(stream)}
    /\ st = "Eof"
    /\ path = <<>>
    /\ results = <<>>
    /\ attempts = <<>>
    /\ before = Snapshot(src, st, path)
    /\ chunked = NoReader
    /\ rule = NoRule
    /\ probe \in {[fn |-> "cursor", delim |-> d, is_ended |-> FALSE, was_ended |-> FALSE,
                   n |-> 0, op |-> "new", arg |-> <<>>, out |-> TRUE] : d \in Delims}

\* the operation op(arg) has left the cursor c and returned out
CursorDid(op, arg, c, out) ==
    /\ src' = c.s
    /\ before' = Snapshot(src, st, path)
    /\ probe' = [probe EXCEPT !.is_ended = c.is_ended, !.was_ended = probe.is_ended,
                              !.n = @ + 1, !.op = op, !.arg = arg, !.out = out]
    /\ UNCHANGED <<stream, st, path, results, attempts, chunked, rule>>

\* the caller may go on: the last operation did not unwind
CursorLive ==
    /\ probe.fn = "cursor"
    /\ probe.n < MaxOps
    /\ ~(probe.op = "take_while" /\ probe.out.e.type = "Panic")

CursorAccepted(needle, a) == CursorDid("accept", needle, a.c, a.v)

CursorAccept == CursorLive /\ \E needle \in Needles : CursorAccepted(needle, accept(Cursor, needle))

CursorPunct(punct, r) == CursorDid("try_parse_punct", punct, r.c, r.k = "ok")

CursorTryParsePunct ==
    CursorLive /\ \E punct \in Needles : CursorPunct(punct, try_parse_punct(Cursor, punct))

CursorUnshift ==
    CursorLive /\ \E n \in 1..2 : CursorDid("unshift", n, [Cursor EXCEPT !.s = unshift(@, n)], TRUE)

CursorTaken(lit, r) == CursorDid("take_while", lit, r.c, [k |-> r.k, v |-> r.v, e |-> r.e])

CursorTakeWhile == CursorLive /\ \E lit \in Rules : CursorTaken(lit, read_while(Cursor, lit))

CursorAsked(e) == CursorDid("is_empty", <<>>, e.c, e.v)

CursorIsEmpty == CursorLive /\ CursorAsked(is_empty(Cursor))

NextCursor ==
    \/ CursorAccept
    \/ CursorTryParsePunct
    \/ CursorUnshift
    \/ CursorTakeWhile
    \/ CursorIsEmpty

SpecCursor == InitCursor /\ [][NextCursor]_vars

(***************************************************************************)
(* The Delimited of parse.rs on its own: at most MaxOps operations on a    *)
(* Delimited over the same inputs.  Its is_empty is its own; opt_parse_punct *)
(* and the unshift of default_opt_parse are handed to the inner source.    *)
(***************************************************************************)
InitDelimited ==
    /\ stream \in {Flatten(ps) : ps \in SeqsUpTo(Pieces, MaxPieces)}
    /\ src \in {StreamReader_new(k, k < Len(stream)) :
                    k \in (IF stream = <<>> THEN 0 ELSE 1)..Len(stream)}
    /\ st = "Eof"
    /\ path = <<>>
    /\ results = <<>>
    /\ attempts = <<>>
    /\ before = Snapshot(src, st, path)
    /\ chunked = NoReader
    /\ rule = NoRule
    /\ probe \in {[fn |-> "delimited", delim |-> d, is_ended |-> FALSE, was_ended |-> FALSE,
                   n |-> 0, op |-> "new", arg |-> <<>>, out |-> TRUE] : d \in Delims \ {<<>>}}

DelimitedLive == probe.fn = "delimited" /\ probe.n < MaxOps

DelimitedAsked(e) == CursorDid("is_empty", <<>>, e.c, e.v)

DelimitedIsEmpty == DelimitedLive /\ DelimitedAsked(Delimited_is_empty(Cursor))

DelimitedPunct(punct, r) ==
    CursorDid("opt_parse_punct", punct, [Cursor EXCEPT !.s = r.c.s], r.k = "ok")

DelimitedOptParsePunct ==
    DelimitedLive /\ \E punct \in Needles : DelimitedPunct(punct, try_parse_punct(Root(src), punct))

DelimitedUnshift ==
    DelimitedLive /\ \E n \in 1..2 : CursorDid("unshift", n, [Cursor EXCEPT !.s = unshift(@, n)], TRUE)

NextDelimited ==
    \/ DelimitedIsEmpty
    \/ DelimitedOptParsePunct
    \/ DelimitedUnshift

SpecDelimited == InitDelimited /\ [][NextDelimited]_vars

(***************************************************************************)
(* Properties                                                              *)
(***************************************************************************)
AllEvents(rs) == \A i \in DOMAIN rs : rs[i].kind = "event"
NoEofIn(rs) == \A i \in DOMAIN rs : rs[i].ev.type # "Eof"

RECURSIVE OpenNames(_, _)
\* the names of the StartTag events among the first n results that no EndTag event among
\* them has closed, in opening order
OpenNames(rs, n) ==
    IF n = 0 THEN <<>>
    ELSE IF rs[n].ev.type = "STag" THEN Append(OpenNames(rs, n - 1), rs[n].ev.name)
    ELSE IF rs[n].ev.type = "ETag"
    THEN SubSeq(OpenNames(rs, n - 1), 1, Len(OpenNames(rs, n - 1)) - 1)
    ELSE OpenNames(rs, n - 1)

\* the attempt a of Parse::try_parse failed with a mismatched token, the committed
\* position being what it was when the attempt began
MismatchAtStart(a) ==
    /\ a.parsed = "err"
    /\ a.e.type = "UnexpectedToken"
    /\ a.pos_failed[1] = a.pos_before[1]

\* C1: for a well-formed input delivered in two parts, split at any offset, the results of
\* the next_event calls are the results the same calls give when it is delivered in one
C1_SplitAgrees == chunked.results = results

\* C2: once a call has returned Eof, every later call returns Eof and no error, and leaves
\* the state, the stack, the committed position and the lookahead offset as they were
C2_EofIsIdempotent ==
    /\ \A i \in 1..(Len(results) - 1) :
          results[i].ev.type = "Eof" => results[i + 1] = EventRes(EofEvent)
    /\ (Len(results) > 1 /\ results[Len(results) - 1].ev.type = "Eof")
          => Snapshot(src, st, path) = before

C2_Witness ==
    /\ Len(results) > 1
    /\ results[Len(results) - 1].ev.type = "Eof"
    /\ LastOf(results).ev.type = "Eof"

\* C3: a call that parses an end tag whose name is not the name on top of the stack
\* returns a syntax error to its caller, and no call before it has returned Eof
C3_MismatchReturnsSyntaxError ==
    \A i \in DOMAIN attempts :
        (/\ attempts[i].what = "EndTag"
         /\ attempts[i].parsed = "ok"
         /\ IF before.path = <<>> THEN TRUE
            ELSE attempts[i].v.name # LastOf(before.path))
        => /\ LastOf(results).kind = "err"
           /\ LastOf(results).err.type \in SyntaxError
           /\ NoEofIn(results)

\* C4: after successful calls only, the stack holds the names of the StartTag events not
\* yet closed by an EndTag event, in opening order, and every EndTag event bears the name
\* that was on top of the stack when it was returned
C4_StackIsOpenNames ==
    AllEvents(results) =>
        /\ path = OpenNames(results, Len(results))
        /\ \A i \in DOMAIN results :
              results[i].ev.type = "ETag" =>
                  /\ OpenNames(results, i - 1) # <<>>
                  /\ results[i].ev.name = LastOf(OpenNames(results, i - 1))

C4_Witness ==
    /\ AllEvents(results)
    /\ \E i \in DOMAIN results : results[i].ev.type = "ETag"
    /\ path # <<>>

C6_MismatchBacktracks ==
    \A i \in DOMAIN attempts :
        MismatchAtStart(attempts[i]) =>
            /\ attempts[i].out = "none"
            /\ attempts[i].oe = NoError
            /\ attempts[i].pos_after = attempts[i].pos_before

C6_Witness ==
    \E i \in DOMAIN attempts :
        /\ MismatchAtStart(attempts[i])
        /\ attempts[i].pos_failed[2] > attempts[i].pos_before[2]
        /\ attempts[i].out = "none"

\* C7: an attempt of Parse::try_parse that fails after the committed position advanced,
\* or with an error that is no mismatched token, returns that error, which next_event
\* returns too, the reader's position staying where the attempt failed
C7_CommittedFailurePropagates ==
    \A i \in DOMAIN attempts :
        (attempts[i].parsed = "err" /\ ~MismatchAtStart(attempts[i])) =>
            /\ attempts[i].out = "err"
            /\ attempts[i].oe = attempts[i].e
            /\ attempts[i].pos_after = attempts[i].pos_failed
            /\ LastOf(results).kind # "event"
            /\ LastOf(results).err = attempts[i].e
            /\ pos(src) = attempts[i].pos_failed

C7_Witness ==
    \E i \in DOMAIN attempts :
        /\ attempts[i].parsed = "err"
        /\ attempts[i].e.type = "UnexpectedToken"
        /\ attempts[i].pos_failed[1] > attempts[i].pos_before[1]
        /\ LastOf(results).kind = "err"

\* C8: a comment returned as an event is closed in the input, and the input
\* <!-- unterminated makes the first call return the UnclosedDelimiter error
C8_UnclosedIsError ==
    /\ \A i \in DOMAIN results :
          results[i].ev.type = "Comment" =>
              Contains(stream, CommDelim.start \o results[i].ev.name \o CommDelim.end)
    /\ (stream = D_Unterminated /\ results # <<>>) =>
          (results[1].kind = "err" /\ results[1].err.type = "UnclosedDelimiter")

\* C9: on the input <!--a--b--> the first call returns a syntax error, and no call
\* returns a Comment event
C9_DoubleHyphenIsError ==
    (stream = D_DoubleHyphen /\ results # <<>>) =>
        /\ results[1].kind = "err"
        /\ results[1].err.type \in SyntaxError
        /\ \A i \in DOMAIN results : results[i].ev.type # "Comment"

\* C10: what the character-data rule has accepted never contains ]]>, and a sequence
\* with no <, no & and no ]]> in it is accepted whole
C10_NeverAcceptsCdataClose ==
    /\ ~Contains(rule.accepted, CDATA_CLOSE_DELIM)
    /\ (/\ rule.name = "Text"
        /\ \A i \in DOMAIN rule.chars : rule.chars[i] \notin {60, 38}
        /\ ~Contains(rule.chars, CDATA_CLOSE_DELIM))
          => (~rule.stopped /\ rule.accepted = SubSeq(rule.chars, 1, rule.fed))

\* C11: for a well-formed input, the results of the next_event calls on the input behind
\* the byte-order mark of its encoding are the results of the same calls on the input
\* without the mark; a leading XML declaration is reported as the Xml event
C11_BomAgrees ==
    /\ \A i \in DOMAIN results : results[i] = chunked.results[i]
    /\ (results # <<>> /\ StartsWith(Drop(stream, Len(UTF_8_BOM)), XmlDeclDelim.start))
          => results[1].ev.type = "Xml"

\* C12: the first call on <a x="1" y='2'/> returns the tag as an event, its attributes
\* being the pairs (x, 1) and (y, 2), unquoted and in source order
C12_TagAttributesParse ==
    (stream = D_EmptyElem /\ results # <<>>) =>
        /\ results[1].kind = "event"
        /\ results[1].ev.type \in {"STag", "EmptyElem"}
        /\ results[1].ev.name = <<97>>
        /\ results[1].ev.attrs = << <<(<<120>>), (<<49>>)>>, <<(<<121>>), (<<50>>)>> >>

\* C13: on a document of an optional XML declaration and properly nested elements with
\* text, the calls return the events of the document in their order and no error, and
\* every call after the last of them returns Eof; on the document D_Simple they return
\* XmlDecl, StartTag a, StartTag b, Text text, EndTag b, EndTag a, Eof
C13_EventsInDocumentOrder ==
    /\ \A evs \in NestedEvents :
          stream = Render(evs) =>
              \A i \in DOMAIN results :
                  results[i] = EventRes(IF i <= Len(evs) THEN evs[i] ELSE EofEvent)
    /\ (stream = D_Simple /\ Len(results) >= 7) =>
          /\ AllEvents(results)
          /\ [i \in 1..7 |-> results[i].ev.type]
                = <<"Xml", "STag", "STag", "Text", "ETag", "ETag", "Eof">>
          /\ [i \in 2..6 |-> results[i].ev.name]
                = [i \in 2..6 |-> <<(<<97>>), (<<98>>), (<<116, 101, 120, 116>>), (<<98>>), (<<97>>)>>[i - 1]]
          /\ results[1].ev.name = <<49, 46, 48>>
          /\ results[1].ev.attrs[1] = << <<85, 84, 70, 45, 56>> >>

C13_Witness ==
    /\ \E evs \in NestedEvents :
          /\ stream = Render(evs)
          /\ evs[1].type = "Xml"
          /\ \E i \in DOMAIN evs : evs[i].type = "Text" /\ evs[i - 1].name = <<98>>
          /\ Len(results) = Len(evs) + 1
    /\ LastOf(results).ev.type = "Eof"

\* C14: a call in which every alternative tried came back without a match (each
\* try_parse attempt gave None and no event was returned) does not unwind: it returns
\* an error value to its caller, a syntax error
C14_NoMatchReturnsError ==
    (/\ results # <<>>
     /\ LastOf(results).kind # "event"
     /\ \A i \in DOMAIN attempts : attempts[i].out = "none")
        => /\ LastOf(results).kind = "err"
           /\ LastOf(results).err.type \in SyntaxError \cup {"Io"}

\* C15: the encoding of the cursor, once set, is what detect finds in the first bytes of
\* the stream, and no later call changes it
C15_EncodingDetectedOnce ==
    /\ src.enc # "None" => src.enc = detect(stream).enc
    /\ before.src.enc # "None" => src.enc = before.src.enc

\* C16: detect returns (Utf16Be, 2) on bytes that start with FE FF, (Utf16Le, 2) on
\* FF FE, (Utf8, 3) on EF BB BF; without a mark it returns the length 0, with Utf16Be on
\* 00 3C 00 3F, Utf16Le on 3C 00 3F 00, Ascii on the bytes of <?xm, and Utf8 on every
\* other input, those shorter than four bytes included
C16_DetectFindsEncoding ==
    (probe.fn = "detect" /\ probe.done) =>
        /\ StartsWith(probe.bytes, <<254, 255>>)
              => probe.out = [enc |-> "Utf16Be", bom_len |-> 2]
        /\ StartsWith(probe.bytes, <<255, 254>>)
              => probe.out = [enc |-> "Utf16Le", bom_len |-> 2]
        /\ StartsWith(probe.bytes, <<239, 187, 191>>)
              => probe.out = [enc |-> "Utf8", bom_len |-> 3]
        /\ StartsWith(probe.bytes, <<0, 60, 0, 63>>)
              => probe.out = [enc |-> "Utf16Be", bom_len |-> 0]
        /\ StartsWith(probe.bytes, <<60, 0, 63, 0>>)
              => probe.out = [enc |-> "Utf16Le", bom_len |-> 0]
        /\ StartsWith(probe.bytes, <<60, 63, 120, 109>>)
              => probe.out = [enc |-> "Ascii", bom_len |-> 0]
        /\ (\A prefix \in {<<254, 255>>, <<255, 254>>, <<239, 187, 191>>, <<0, 60, 0, 63>>,
                           <<60, 0, 63, 0>>, <<60, 63, 120, 109>>} :
                ~StartsWith(probe.bytes, prefix))
              => probe.out = [enc |-> "Utf8", bom_len |-> 0]
        /\ (Len(probe.bytes) < 4 /\ probe.out.bom_len = 0) => probe.out.enc = "Utf8"

C16_Witness ==
    /\ probe.fn = "detect"
    /\ probe.done
    /\ probe.bytes = <<60, 63, 120, 109>>
    /\ probe.out.enc = "Ascii"

\* C17: utf8_char_len returns 1 on the bytes 0x00-0x7F, 2 on 0xC0-0xDF, 3 on 0xE0-0xEF,
\* 4 on 0xF0-0xF7 and the InvalidData error on every other byte
C17_Utf8CharLenByRange ==
    (probe.fn = "utf8_char_len" /\ probe.done) =>
        LET b == probe.bytes[1]
        IN  /\ b \in 0..127 => probe.out = 1
            /\ b \in 192..223 => probe.out = 2
            /\ b \in 224..239 => probe.out = 3
            /\ b \in 240..247 => probe.out = 4
            /\ b \in (128..191) \cup (248..255) => probe.out = 0

C17_Witness ==
    /\ probe.fn = "utf8_char_len"
    /\ probe.done
    /\ probe.bytes = <<248>>
    /\ probe.out = 0

\* C18: Encoding::next_char on a slice that holds fewer bytes than the character needs
\* (an empty slice, a UTF-8 first byte without all the bytes that follow it, one byte of
\* a UTF-16 unit) returns None, and on a byte that cannot begin a UTF-8 character it
\* does not unwind
C18_TruncatedIsNone ==
    (probe.fn = "next_char" /\ probe.done) =>
        LET needed ==
                IF probe.enc \in {"Utf16Be", "Utf16Le"} THEN 2
                ELSE IF probe.enc = "Ascii" \/ probe.bytes = <<>> THEN 1
                ELSE IF probe.bytes[1] \in 192..223 THEN 2
                ELSE IF probe.bytes[1] \in 224..239 THEN 3
                ELSE IF probe.bytes[1] \in 240..247 THEN 4
                ELSE 1
            bad_lead ==
                /\ probe.enc = "Utf8"
                /\ probe.bytes # <<>>
                /\ probe.bytes[1] \in (128..191) \cup (248..255)
        IN  /\ Len(probe.bytes) < needed => probe.out.k = "none"
            /\ bad_lead => probe.out.k # "panic"

\* C19: the call made in the state Start leaves the reader in AfterXml or in the state
\* AfterXml moved on to, never in Start; when the attempt at an XML declaration finds
\* none, the position and the lookahead offset after the attempt are those before it, and
\* the call returns the result, the state and the stack that the AfterXml branch gives on
\* the reader as it was before the call
C19_StartEntersAfterXml ==
    (results # <<>> /\ before.st = "Start") =>
        /\ st \in {"AfterXml", "InElem"}
        /\ attempts # <<>>
        /\ attempts[1].what = "XmlDecl"
        /\ attempts[1].out = "none" =>
              /\ attempts[1].pos_after = attempts[1].pos_before
              /\ attempts[1].pos_before = pos(before.src)
              /\ LastOf(results) = next_event_AfterXml(before.src, before.path).res
              /\ st = next_event_AfterXml(before.src, before.path).st
              /\ path = next_event_AfterXml(before.src, before.path).path
              /\ pos(src) = pos(next_event_AfterXml(before.src, before.path).src)
        /\ attempts[1].out # "none" => st = "AfterXml"

C19_Witness ==
    /\ results # <<>>
    /\ before.st = "Start"
    /\ attempts[1].what = "XmlDecl"
    /\ attempts[1].out = "none"
    /\ LastOf(results).kind = "event"
    /\ LastOf(results).ev.type = "STag"
    /\ st = "InElem"

\* C20: a call that returns an event other than Eof leaves the sum of the position and
\* the lookahead offset greater than it was, and the sum never exceeds the length of the
\* input, so that no more calls than the input has bytes return such an event and the
\* call after them returns Eof or an error, or unwinds; a call made in InElem that
\* returns no text returns what the AfterText branch gives on the reader as it was, and
\* so dispatches once more and no further; after every call the reader is in one of its
\* six states, in each of which the next call is defined
C20_Offset(s) == s.pos + s.shift

C20_IsEvent(r) == r.kind = "event" /\ r.ev.type # "Eof"

C21_Order == <<"StartTag", "EndTag", "Pi">>

C21_IsAlternative(a) == a.what \in {"StartTag", "EndTag", "Pi"}

\* the attempts next_event itself made in the last call, those made inside them left out
C21_Tried == SelectSeq(attempts, C21_IsAlternative)

C21_AfterTextOrder ==
    (results # <<>> /\ before.st = "AfterText") =>
        /\ C21_Tried # <<>>
        /\ Len(C21_Tried) <= Len(C21_Order)
        /\ \A i \in DOMAIN C21_Tried :
              /\ C21_Tried[i].what = C21_Order[i]
              /\ i < Len(C21_Tried) => C21_Tried[i].out = "none"
              /\ (C21_Tried[i].out = "ok" /\ LastOf(results).kind = "event")
                    => LastOf(results).ev = C21_Tried[i].v
        /\ (\E d \in {ETagDelim.start, PiDelim.start, CommDelim.start} :
                StartsWith(fill_buf(before.src), d)) =>
              /\ C21_Tried[1].out = "none"
              /\ C21_Tried[1].pos_after = pos(before.src)
              /\ LastOf(results).ev.type # "STag"
        /\ (StartsWith(fill_buf(before.src), ETagDelim.start)
                /\ LastOf(results).kind = "event") => LastOf(results).ev.type = "ETag"
        /\ (StartsWith(fill_buf(before.src), PiDelim.start)
                /\ LastOf(results).kind = "event") => LastOf(results).ev.type = "Pi"
        /\ (StartsWith(fill_buf(before.src), CommDelim.start)
                /\ LastOf(results).kind = "event") => LastOf(results).ev.type = "Comment"
        /\ (LastOf(results).kind = "event" /\ LastOf(results).ev.type = "Comment")
              => (Len(C21_Tried) = 3 /\ C21_Tried[3].out = "none")
        /\ (LastOf(results).kind = "panic" /\ Len(C21_Tried) < 3)
              => (Len(C21_Tried) = 2 /\ C21_Tried[2].out = "ok")
        /\ LastOf(results).kind = "event" =>
              /\ LastOf(results).ev.type \in {"STag", "ETag", "Pi", "Comment"}
              /\ st = IF LastOf(results).ev.type = "ETag" /\ path = <<>>
                      THEN "AfterRoot" ELSE "InElem"
              /\ LastOf(results).ev.type = "STag" => path = Append(before.path, LastOf(results).ev.name)
              /\ LastOf(results).ev.type = "ETag" => before.path = Append(path, LastOf(results).ev.name)
              /\ LastOf(results).ev.type \in {"Pi", "Comment"} => path = before.path

C21_Witness ==
    /\ results # <<>>
    /\ before.st = "AfterText"
    /\ StartsWith(fill_buf(before.src), PiDelim.start)
    /\ Len(C21_Tried) = 3
    /\ C21_Tried[1].pos_failed # C21_Tried[1].pos_before
    /\ LastOf(results).kind = "event"
    /\ LastOf(results).ev.type = "Pi"
    /\ st = "InElem"

\* C22: read_while on a fresh cursor over a single buffer returns the longest prefix of
\* the upcoming characters that the rule accepts one after the other and before which no
\* position starts with the closing delimiter; where the rule rejects a character the
\* bytes consumed are those of the prefix, and where the delimiter stands they are those
\* of the prefix and of the delimiter, which is no part of the string returned (where the
\* delimiter stands and the rule rejects its first character, either)
RECURSIVE C22_Scan(_, _, _, _, _, _)
\* the prefix v read so far in used bytes, the rule's state being rs: what the scan of the
\* rest gives, and whether the rule rejects the character it stops at
C22_Scan(rest, delim, lit, rs, v, used) ==
    IF rest = <<>> THEN [v |-> v, used |-> used, ended |-> FALSE, rejected |-> FALSE]
    ELSE LET n == utf8_char_len(rest[1])
             ch == decode_char("Utf8", SubSeq(rest, 1, n))
             p == RuleStep(lit, rs, ch)
         IN  IF delim # <<>> /\ StartsWith(rest, delim)
             THEN [v |-> v, used |-> used + Len(delim), ended |-> TRUE, rejected |-> ~p.ok]
             ELSE IF p.ok
             THEN C22_Scan(Drop(rest, n), delim, lit, p.st, Append(v, ch), used + n)
             ELSE [v |-> v, used |-> used, ended |-> FALSE, rejected |-> TRUE]

C22_FirstScan ==
    /\ probe.fn = "cursor"
    /\ probe.n = 1
    /\ probe.op = "take_while"
    /\ before.src.reader.split = Len(stream)

C22_Agrees(x) ==
    /\ probe.out.k = "ok"
    /\ probe.out.v = x.v
    /\ src.shift = 0
    /\ \/ src.pos = x.used /\ probe.is_ended = x.ended
       \/ /\ x.ended /\ x.rejected
          /\ src.pos = x.used - Len(probe.delim)
          /\ ~probe.is_ended

C22_ReadWhileLongestPrefix ==
    C22_FirstScan =>
        C22_Agrees(C22_Scan(stream, probe.delim, probe.arg, RuleInit(probe.arg), <<>>, 0))

\* C23: a scan on a fresh cursor whose byte source delivers the input in two parts returns
\* the string, and leaves the position, the lookahead offset and the cursor's end mark,
\* that the same scan gives over a source holding the whole input at once
C23_Same(r) ==
    /\ probe.out.k = r.k
    /\ probe.out.v = r.v
    /\ pos(src) = pos(r.c.s)
    /\ probe.is_ended = r.c.is_ended

C23_RefillAgrees ==
    (probe.fn = "cursor" /\ probe.n = 1 /\ probe.op = "take_while") =>
        C23_Same(read_while([s |-> StreamReader_new(Len(stream), FALSE),
                             delim |-> probe.delim, is_ended |-> FALSE], probe.arg))

\* C24: is_empty on a ReadUntil returns true exactly when the closing delimiter has been
\* met, before the call or at the bytes that come next in the input, or no byte comes
\* next; when it meets the delimiter it consumes it, the lookahead with it, and when it
\* returns false the position and the lookahead offset are what they were
C24_Rest == Drop(stream, before.src.reader.rd + before.src.shift)

C24_Asked ==
    /\ probe.fn = "cursor"
    /\ probe.op = "is_empty"
    /\ probe.delim # <<>>

C24_SubCursorIsEmpty ==
    C24_Asked =>
        /\ probe.out <=> \/ probe.was_ended
                         \/ C24_Rest = <<>>
                         \/ StartsWith(C24_Rest, probe.delim)
        /\ (~probe.was_ended /\ StartsWith(C24_Rest, probe.delim)) =>
              /\ probe.is_ended
              /\ pos(src) = <<before.src.pos + before.src.shift + Len(probe.delim), 0>>
        /\ ~probe.out => (pos(src) = pos(before.src) /\ ~probe.is_ended)
        /\ (probe.was_ended \/ C24_Rest = <<>>) => pos(src) = pos(before.src)

\* C25: accept, on a StreamReader and on a ReadUntil alike, reports whether the bytes
\* that come next (after the lookahead) begin with the needle, and leaves the position
\* and the lookahead offset of the source as they were, whether it matched or not
C25_Accepted ==
    /\ probe.fn = "cursor"
    /\ probe.op = "accept"

C25_AcceptOnlyReports ==
    C25_Accepted =>
        /\ pos(src) = pos(before.src)
        /\ probe.out => StartsWith(fill_buf(before.src), probe.arg)

C27_State == [pos |-> src.pos, skipped |-> src.shift]

C27_Unshifted ==
    /\ probe.fn = "cursor"
    /\ probe.op = "unshift"

C27_ShiftUnshift ==
    C27_Unshifted =>
        /\ src.pos = before.src.pos
        /\ src.reader = before.src.reader
        /\ src.shift = (IF probe.arg <= before.src.shift
                        THEN before.src.shift - probe.arg ELSE 0)
        /\ \A n \in 0..MaxOps : /\ unshift(shift(src, n), n) = src
                                /\ unshift(shift(before.src, n), n) = before.src
        /\ \A n \in 0..(MaxOps + 1) :
              /\ go_back(C27_State, n).state.pos = src.pos
              /\ go_back(C27_State, n).v <=> n <= src.shift
              /\ n > src.shift => go_back(C27_State, n).state = C27_State
              /\ n <= src.shift => go_back(C27_State, n).state.skipped = src.shift - n

C27_Witness ==
    /\ C27_Unshifted
    /\ before.src.shift > 0
    /\ probe.arg > before.src.shift
    /\ src.shift = 0

\* C28: what the comment rule has accepted is a prefix of the characters fed to it in
\* which no two hyphens follow each other and every other character is a legal XML
\* character; the rule stops at a hyphen exactly when the character before it was a
\* hyphen, and at another character exactly when that character is not legal
C28_Legal(ch) ==
    \/ ch \in {9, 10, 13}
    \/ ch \in 32..55295
    \/ ch \in 57344..65533
    \/ ch \in 65536..1114111

C28_Refused(cs, i) ==
    IF cs[i] = 45 THEN i > 1 /\ cs[i - 1] = 45
    ELSE ~C28_Legal(cs[i])

C28_CommentRule ==
    rule.name = "Comment" =>
        /\ rule.accepted = SubSeq(rule.chars, 1, Len(rule.accepted))
        /\ \A i \in 1..(Len(rule.accepted) - 1) :
              ~(rule.accepted[i] = 45 /\ rule.accepted[i + 1] = 45)
        /\ \A i \in DOMAIN rule.accepted :
              rule.accepted[i] # 45 => C28_Legal(rule.accepted[i])
        /\ \A i \in 1..rule.fed :
              C28_Refused(rule.chars, i) <=> (rule.stopped /\ i = rule.fed)
        /\ Len(rule.accepted) = (IF rule.stopped THEN rule.fed - 1 ELSE rule.fed)

C28_Witness ==
    /\ rule.name = "Comment"
    /\ rule.stopped
    /\ Len(rule.accepted) >= 3
    /\ rule.accepted[1] = 45
    /\ rule.accepted[Len(rule.accepted)] = 45
    /\ rule.chars[rule.fed] = 45

\* C29: when a call returns the event of a delimited construct (XML declaration,
\* processing instruction, start tag, end tag, comment), the bytes consumed so far end
\* with the closing punctuation of the construct, and no lookahead is pending
C29_Close(type) ==
    CASE type \in {"Xml", "Pi"}    -> <<63, 62>>
      [] type \in {"STag", "ETag"} -> <<62>>
      [] type = "Comment"          -> <<45, 45, 62>>

C29_Delimited(r) ==
    /\ r.kind = "event"
    /\ r.ev.type \in {"Xml", "Pi", "STag", "ETag", "Comment"}

C29_ClosedAt(close, offset) ==
    /\ offset >= Len(close)
    /\ SubSeq(stream, offset - Len(close) + 1, offset) = close

C29_ConstructConsumed ==
    (probe.fn = "None" /\ results # <<>> /\ C29_Delimited(LastOf(results))) =>
        /\ src.shift = 0
        /\ C29_ClosedAt(C29_Close(LastOf(results).ev.type), src.pos)

\* C30: no literal in an event a call has returned is empty: the text of a Text, S or
\* Comment event, the name of a tag or of a processing instruction, the name and the
\* value of every attribute, the version, encoding and standalone values of the XML
\* declaration; the first call on <a x=""> and on <!----> returns no event
C30_Some(option) == Len(option) = 1 /\ option[1] # <<>>

C30_Attribute(att) == att[1] # <<>> /\ att[2] # <<>>

C30_Literals(ev) ==
    CASE ev.type \in {"Text", "S", "Comment", "Pi", "ETag"} -> ev.name # <<>>
      [] ev.type \in {"STag", "EmptyElem"} ->
            /\ ev.name # <<>>
            /\ \A i \in DOMAIN ev.attrs : C30_Attribute(ev.attrs[i])
      [] ev.type = "Xml" ->
            /\ ev.name # <<>>
            /\ \A i \in DOMAIN ev.attrs : ev.attrs[i] = <<>> \/ C30_Some(ev.attrs[i])
      [] OTHER -> TRUE

C30_LiteralsNotEmpty ==
    /\ \A i \in DOMAIN results :
          results[i].kind = "event" => C30_Literals(results[i].ev)
    /\ (stream \in {D_EmptyValue, D_EmptyComment} /\ results # <<>>) =>
          results[1].kind # "event"

C30_Witness ==
    /\ stream = D_EmptyValue
    /\ Len(results) = 1
    /\ results[1].kind = "err"
    /\ results[1].err = [type |-> "UnexpectedToken", tok |-> "AttValue"]
    /\ src.pos = 7

\* C31: when is_empty is called on a Delimited or a ReadUntil that has ended (its
\* is_ended is set, or no byte comes next in the input), it returns true and leaves the
\* committed position and the lookahead offset as they were, whatever the input that
\* follows begins with
C31_Rest == Drop(stream, before.src.reader.rd + before.src.shift)

C31_AskedWhenEnded ==
    /\ probe.fn \in {"cursor", "delimited"}
    /\ probe.delim # <<>>
    /\ probe.op = "is_empty"
    /\ (probe.was_ended \/ C31_Rest = <<>>)

C31_EndedStaysEmpty ==
    C31_AskedWhenEnded =>
        /\ probe.out
        /\ pos(src) = pos(before.src)

====
